---- MODULE Spec2Model ----
(***************************************************************************)
(* AirFly Insights: the chunked loader, the sampling loader, the dtype     *)
(* optimizer, the feature deriver and the metric helpers, as a state       *)
(* machine whose actions are the calls of the public functions.            *)
(*                                                                         *)
(* A call is one action, except load_data_chunked, whose reading loop is   *)
(* one action per batch.  The state holds the operation called (op), its   *)
(* inputs (arg), its outcome (ret) and the locals of the running loader.   *)
(***************************************************************************)
EXTENDS Integers, Sequences, FiniteSets, TLC

VARIABLES op, arg, ret, chunks, total_rows, pos, reads

vars == <<op, arg, ret, chunks, total_rows, pos, reads>>

(***************************************************************************)
(* Bounds of the model.                                                    *)
(***************************************************************************)
MaxTableRows == 1       \* rows of a table handed to optimize / derive
MaxFileRows  == 3       \* data rows of a file handed to the loaders
MaxChunk     == 2       \* largest chunksize tried
MaxSample    == 2       \* largest sample_size tried
MaxDelays    == 5       \* length of a delay column
MaxSeries    == 3
MaxCategories == 4       \* length of a series checked for outliers

(***************************************************************************)
(* Small helpers on sequences and numbers.                                 *)
(***************************************************************************)
Min(a, b) == IF a <= b THEN a ELSE b

Abs(x) == IF x < 0 THEN -x ELSE x

Range(s) == {s[i] : i \in 1..Len(s)}

RECURSIVE SeqsUpTo(_, _)
SeqsUpTo(S, n) ==
    IF n = 0 THEN {<<>>}
    ELSE LET shorter == SeqsUpTo(S, n - 1)
         IN  shorter \cup {Append(s, x) : s \in {t \in shorter : Len(t) = n - 1}, x \in S}

SeqsOfLen(S, n) == {s \in SeqsUpTo(S, n) : Len(s) = n}

RECURSIVE Sum(_)
Sum(s) == IF s = <<>> THEN 0 ELSE Head(s) + Sum(Tail(s))

RECURSIVE Flatten(_)
Flatten(ss) == IF ss = <<>> THEN <<>> ELSE Head(ss) \o Flatten(Tail(ss))

(***************************************************************************)
(* Cell values.  A number is kept in tenths (1.5 is Num(15)), NaN is a     *)
(* missing value, Str is text that is no number, Huge is a Python int      *)
(* beyond the C long range held in an object column.                       *)
(***************************************************************************)
Num(t)  == [k |-> "num", v |-> t]
NaN     == [k |-> "nan", v |-> 0]
Str(i)  == [k |-> "str", v |-> i]
Huge    == [k |-> "huge", v |-> 0]

IsWhole(x) == x.k = "num" /\ x.v % 10 = 0

(***************************************************************************)
(* config.py: the data type mappings and the analysis thresholds.          *)
(***************************************************************************)
DTYPE_MAPPINGS ==
    [categorical |->
        <<"AIRLINE", "ORIGIN_AIRPORT", "DESTINATION_AIRPORT",
          "CANCELLATION_REASON", "DAY_OF_WEEK", "TAIL_NUMBER">>,
     integer |->
        << <<"YEAR", "int16">>, <<"MONTH", "int8">>, <<"DAY", "int8">>,
           <<"DAY_OF_WEEK", "int8">>, <<"FLIGHT_NUMBER", "int16">>,
           <<"SCHEDULED_DEPARTURE", "int16">>, <<"DEPARTURE_TIME", "int16">>,
           <<"DEPARTURE_DELAY", "float32">>, <<"TAXI_OUT", "float32">>,
           <<"WHEELS_OFF", "int16">>, <<"SCHEDULED_TIME", "int16">>,
           <<"ELAPSED_TIME", "float32">>, <<"AIR_TIME", "float32">>,
           <<"DISTANCE", "int16">>, <<"WHEELS_ON", "int16">>,
           <<"TAXI_IN", "float32">>, <<"SCHEDULED_ARRIVAL", "int16">>,
           <<"ARRIVAL_TIME", "int16">>, <<"ARRIVAL_DELAY", "float32">>,
           <<"DIVERTED", "int8">>, <<"CANCELLED", "int8">>,
           <<"CARRIER_DELAY", "float32">>, <<"WEATHER_DELAY", "float32">>,
           <<"NAS_DELAY", "float32">>, <<"SECURITY_DELAY", "float32">>,
           <<"LATE_AIRCRAFT_DELAY", "float32">> >>]

CategoricalColumns == Range(DTYPE_MAPPINGS.categorical)

NumericColumns == {p[1] : p \in Range(DTYPE_MAPPINGS.integer)}

TargetOf(col) == (CHOOSE p \in Range(DTYPE_MAPPINGS.integer) : p[1] = col)[2]

(***************************************************************************)
(* Tables.  A table is its column names in order, one column per name and  *)
(* the identities of its rows (rows[i] is the number of the source row     *)
(* that row i came from; the identities are bookkeeping of the model, the  *)
(* program keeps no such field).  A column is its dtype, the dtype of its  *)
(* categories when it is categorical (base), and one value per row.        *)
(***************************************************************************)
Column(dtype, vals) == [dtype |-> dtype, base |-> dtype, vals |-> vals]

NRows(df) == Len(df.rows)

HasColumn(df, col) == col \in Range(df.cols)

\* An assignment that adds the column beside the one of the same name.
SetColumnBeside(df, col, c) ==
    [df EXCEPT !.cols = Append(df.cols, col),
               !.data = [x \in Range(df.cols) \cup {col} |->
                            IF x = col THEN c ELSE df.data[x]]]

SetColumn(df, col, c) ==
    IF HasColumn(df, col)
    THEN [df EXCEPT !.data = [df.data EXCEPT ![col] = c]]
    ELSE [df EXCEPT !.cols = Append(df.cols, col),
                    !.data = [x \in Range(df.cols) \cup {col} |->
                                 IF x = col THEN c ELSE df.data[x]]]

(***************************************************************************)
(* Series.astype, as far as optimize_dataframe_dtypes uses it.             *)
(*   'category' keeps the values and records the dtype of the categories.  *)
(*   An integer target wraps integers to the width (numpy casts modulo     *)
(*   2^w), truncates floats toward zero, raises ValueError on a missing    *)
(*   value and on text, and OverflowError on a Python int beyond C long.   *)
(*   float32 rounds to the float32 grid (modelled as halves: 1.5 is on it, *)
(*   1.2 is not), keeps a missing value, raises ValueError on text.        *)
(*   A categorical column is cast through its categories, after a          *)
(*   ValueError when the target is an integer and a value is missing.      *)
(* The result is [exc, col]: exc is "" when the cast succeeded.            *)
(***************************************************************************)
IsIntDtype(d) == d \in {"int8", "int16", "int64"}

IsFloatDtype(d) == d \in {"float32", "float64"}

Bits(d) == IF d = "int8" THEN 8 ELSE 16

Trunc(t) == IF t >= 0 THEN (t \div 10) ELSE -((-t) \div 10)

\* A hand-written wrap that subtracts the modulus once.
WrapOnce(n, w) == IF n >= 2^(w - 1) THEN n - 2^w ELSE n

Wrap(n, w) == ((n + 2^(w - 1)) % 2^w) - 2^(w - 1)

ToInt(x, d) == Num(10 * Wrap(Trunc(x.v), Bits(d)))

Float32(x) ==
    IF x.k # "num" THEN x
    ELSE LET r == x.v % 5
         IN  Num(IF r <= 2 THEN x.v - r ELSE x.v + (5 - r))

AsCategory(c) ==
    IF c.dtype = "category" THEN c
    ELSE [dtype |-> "category", base |-> c.dtype, vals |-> c.vals]

\* The exception the element x of a column of dtype d raises under the
\* target, "" when it converts.
ElementError(x, d, target) ==
    IF IsIntDtype(target)
    THEN CASE x.k = "nan"  -> "ValueError"
           [] x.k = "str"  -> "ValueError"
           [] x.k = "huge" -> "OverflowError"
           [] OTHER        -> IF d = "object" /\ ~IsWhole(x) THEN "ValueError" ELSE ""
    ELSE IF x.k = "str" THEN "ValueError" ELSE ""

FirstError(vals, d, target) ==
    LET bad == {i \in 1..Len(vals) : ElementError(vals[i], d, target) # ""}
    IN  IF bad = {} THEN ""
        ELSE ElementError(vals[CHOOSE i \in bad : \A j \in bad : i <= j], d, target)

Convert(x, target) == IF IsIntDtype(target) THEN ToInt(x, target) ELSE Float32(x)

AsType(c, target) ==
    LET d   == IF c.dtype = "category" THEN c.base ELSE c.dtype
        err == IF c.dtype = "category" /\ IsIntDtype(target)
                  /\ \E i \in 1..Len(c.vals) : c.vals[i].k = "nan"
               THEN "ValueError"
               ELSE FirstError(c.vals, d, target)
    IN  IF err # "" THEN [exc |-> err, col |-> c]
        ELSE [exc |-> "",
              col |-> Column(target, [i \in 1..Len(c.vals) |-> Convert(c.vals[i], target)])]

(***************************************************************************)
(* optimize_dataframe_dtypes.  The result is [status, exc, df, warnings]:  *)
(* status "ok" with the optimized copy and the columns warned about, or    *)
(* status "raised" with the exception that left the function.              *)
(***************************************************************************)
RECURSIVE ConvertCategorical(_, _)
ConvertCategorical(df, i) ==
    IF i > Len(DTYPE_MAPPINGS.categorical) THEN df
    ELSE LET col == DTYPE_MAPPINGS.categorical[i]
         IN  ConvertCategorical(
                 IF HasColumn(df, col)
                 THEN SetColumn(df, col, AsCategory(df.data[col]))
                 ELSE df,
                 i + 1)

\* One column of the integer/float loop: the try/except around astype.
TryAsType(st, col, dtype) ==
    IF ~HasColumn(st.df, col) THEN st
    ELSE LET r == AsType(st.df.data[col], dtype)
         IN  IF r.exc = ""
             THEN [st EXCEPT !.df = SetColumn(st.df, col, r.col)]
             ELSE IF r.exc \in {"ValueError", "TypeError"}
             THEN [st EXCEPT !.warnings = Append(st.warnings, col)]
             ELSE [st EXCEPT !.status = "raised", !.exc = r.exc]

RECURSIVE ConvertNumeric(_, _)
ConvertNumeric(st, i) ==
    IF i > Len(DTYPE_MAPPINGS.integer) \/ st.status = "raised" THEN st
    ELSE ConvertNumeric(
             TryAsType(st, DTYPE_MAPPINGS.integer[i][1], DTYPE_MAPPINGS.integer[i][2]),
             i + 1)

optimize_dataframe_dtypes(df) ==
    ConvertNumeric([status |-> "ok", exc |-> "",
                    df |-> ConvertCategorical(df, 1), warnings |-> <<>>], 1)

(***************************************************************************)
(* features.py: create_derived_features.                                   *)
(*                                                                         *)
(* A date is the day of the year 2023 it falls on (Date(1) is Sunday       *)
(* 2023-01-01); a missing date (NaT) is NaN.  Text made by the function is *)
(* Text(s); the text of a cell, as astype(str) gives it, is TextOf.        *)
(***************************************************************************)
Date(d) == [k |-> "date", v |-> d]

Text(s) == [k |-> "text", v |-> s]

DaysInMonth == <<31, 28, 31, 30, 31, 30, 31, 31, 30, 31, 30, 31>>

MonthNames == <<"January", "February", "March", "April", "May", "June", "July",
                "August", "September", "October", "November", "December">>

DayNames == <<"Monday", "Tuesday", "Wednesday", "Thursday", "Friday",
              "Saturday", "Sunday">>

RECURSIVE MonthFrom(_, _)
MonthFrom(d, m) == IF d <= DaysInMonth[m] THEN m ELSE MonthFrom(d - DaysInMonth[m], m + 1)

\* Series.dt.month and Series.dt.dayofweek (Monday is 0) of one value.
month(x) == IF x.k = "date" THEN Num(10 * MonthFrom(x.v, 1)) ELSE NaN

dayofweek(x) == IF x.k = "date" THEN Num(10 * ((x.v + 5) % 7)) ELSE NaN

month_name(x) == IF x.k = "date" THEN Text(MonthNames[MonthFrom(x.v, 1)]) ELSE NaN

day_name(x) == IF x.k = "date" THEN Text(DayNames[((x.v + 5) % 7) + 1]) ELSE NaN

\* astype(str) of one cell, then the route label 'origin to destination'.
TextOf(x) == IF x.k = "nan" THEN Text("nan") ELSE x

RouteLabel(a, b) == [k |-> "route", v |-> <<TextOf(a), TextOf(b)>>]

\* pd.cut(x, bins, labels): the intervals are open on the left and closed on
\* the right (right=True, include_lowest=False are the defaults), so the
\* value bins[1] itself is in no interval.  Ages are in tenths, bins whole.
bins == <<0, 18, 35, 50, 65, 120>>

labels == <<"0-18", "19-35", "36-50", "51-65", "65+">>

cut(x) ==
    LET hit == {i \in 1..Len(labels) :
                   x.k = "num" /\ 10 * bins[i] < x.v /\ x.v <= 10 * bins[i + 1]}
    IN  IF hit = {} THEN NaN ELSE Text(labels[CHOOSE i \in hit : TRUE])

\* 1. Date-based features: the .dt accessor raises AttributeError on a
\* column that is not datetime-like.
DateFeatures(st) ==
    IF ~HasColumn(st.df, "DEPARTURE_DATE") THEN st
    ELSE LET c  == st.df.data["DEPARTURE_DATE"]
             n  == Len(c.vals)
             d1 == SetColumn(st.df, "MONTH",
                       Column("Int8", [i \in 1..n |-> month(c.vals[i])]))
             d2 == SetColumn(d1, "MONTH_NAME",
                       AsCategory(Column("object", [i \in 1..n |-> month_name(c.vals[i])])))
             d3 == SetColumn(d2, "DAY_OF_WEEK",
                       Column("Int8", [i \in 1..n |-> dayofweek(c.vals[i])]))
             d4 == SetColumn(d3, "DAY_NAME",
                       AsCategory(Column("object", [i \in 1..n |-> day_name(c.vals[i])])))
         IN  IF c.dtype # "datetime64"
             THEN [st EXCEPT !.status = "raised", !.exc = "AttributeError"]
             ELSE [st EXCEPT !.df = d4]

\* The route feature guarded by the origin column alone: the destination is
\* then looked up in a table that may not have it (KeyError).
RouteFeatureOriginOnly(st) ==
    IF st.status = "raised" \/ ~HasColumn(st.df, "Airport Name") THEN st
    ELSE IF ~HasColumn(st.df, "Arrival Airport")
    THEN [st EXCEPT !.status = "raised", !.exc = "KeyError"]
    ELSE LET a == st.df.data["Airport Name"].vals
             b == st.df.data["Arrival Airport"].vals
         IN  [st EXCEPT !.df =
                 SetColumn(st.df, "ROUTE",
                     AsCategory(Column("object",
                         [i \in 1..Len(a) |-> RouteLabel(a[i], b[i])])))]

\* 2. Route feature.
RouteFeature(st) ==
    IF st.status = "raised"
       \/ ~(HasColumn(st.df, "Airport Name") /\ HasColumn(st.df, "Arrival Airport"))
    THEN st
    ELSE LET a == st.df.data["Airport Name"].vals
             b == st.df.data["Arrival Airport"].vals
         IN  [st EXCEPT !.df =
                 SetColumn(st.df, "ROUTE",
                     AsCategory(Column("object",
                         [i \in 1..Len(a) |-> RouteLabel(a[i], b[i])])))]

\* 3. Age groups: pd.cut raises TypeError on a column of text.
AgeFeature(st) ==
    IF st.status = "raised" \/ ~HasColumn(st.df, "Age") THEN st
    ELSE LET c == st.df.data["Age"]
         IN  IF ~(IsIntDtype(c.dtype) \/ IsFloatDtype(c.dtype))
             THEN [st EXCEPT !.status = "raised", !.exc = "TypeError"]
             ELSE [st EXCEPT !.df =
                     SetColumn(st.df, "AGE_GROUP",
                               AsCategory(Column("object",
                                   [i \in 1..Len(c.vals) |-> cut(c.vals[i])])))]

create_derived_features(df) ==
    AgeFeature(RouteFeature(DateFeatures([status |-> "ok", exc |-> "", df |-> df])))

(***************************************************************************)
(* data_loader.py: reading a CSV file.                                     *)
(*                                                                         *)
(* A file is its header (cols) and its data lines in order.  A line is     *)
(* its number in the file (id), whether it is malformed (bad: more fields  *)
(* than the header) and one cell per column: a number, an empty field      *)
(* (NaN) or text.                                                          *)
(***************************************************************************)
\* The dtype pd.read_csv infers for the cells of one column of one batch:
\* text makes it object, an empty or fractional field float64, whole
\* numbers int64; a batch without rows has object columns.
InferDtype(vals) ==
    IF vals = <<>> THEN "object"
    ELSE IF \E i \in 1..Len(vals) : vals[i].k = "str" THEN "object"
    ELSE IF \A i \in 1..Len(vals) : IsWhole(vals[i]) THEN "int64"
    ELSE "float64"

\* The frame pd.read_csv makes of the given lines.
FrameOf(cols, lines) ==
    [cols |-> cols,
     data |-> [c \in Range(cols) |->
                 LET vals == [i \in 1..Len(lines) |-> lines[i].cells[c]]
                 IN  Column(InferDtype(vals), vals)],
     rows |-> [i \in 1..Len(lines) |-> lines[i].id]]

\* np.find_common_type over the dtypes of the pieces of one column.
CommonDtype(ds) ==
    IF Cardinality(ds) = 1 THEN CHOOSE d \in ds : TRUE
    ELSE IF "object" \in ds THEN "object"
    ELSE IF \A d \in ds : IsIntDtype(d)
         THEN (IF "int64" \in ds THEN "int64" ELSE "int16")
    ELSE IF "float64" \in ds \/ "int64" \in ds THEN "float64"
    ELSE "float32"

Categories(c) == {x \in Range(c.vals) : x.k # "nan"}

\* pd.concat of the pieces of one column: categoricals with the same
\* categories stay categorical; otherwise the pieces are cast to the common
\* dtype of their values.
ConcatColumn(cs) ==
    LET first == cs[1]
        vals  == Flatten([i \in 1..Len(cs) |-> cs[i].vals])
        same  == \A i \in 1..Len(cs) :
                    /\ cs[i].dtype = "category"
                    /\ cs[i].base = first.base
                    /\ Categories(cs[i]) = Categories(first)
    IN  IF same THEN [dtype |-> "category", base |-> first.base, vals |-> vals]
        ELSE Column(CommonDtype({cs[i].base : i \in 1..Len(cs)}), vals)

\* pd.concat(chunks, ignore_index=True): the rows of the chunks in order.
concat(cs) ==
    [cols |-> cs[1].cols,
     data |-> [c \in Range(cs[1].cols) |->
                 ConcatColumn([i \in 1..Len(cs) |-> cs[i].data[c]])],
     rows |-> Flatten([i \in 1..Len(cs) |-> cs[i].rows])]

\* df.head(n) for n >= 0, and the rows of df at the given positions
\* (what df.sample returns, for the positions it drew).
take(df, idx) ==
    [cols |-> df.cols,
     data |-> [c \in Range(df.cols) |->
                 [df.data[c] EXCEPT !.vals = [i \in 1..Len(idx) |-> df.data[c].vals[idx[i]]]]],
     rows |-> [i \in 1..Len(idx) |-> df.rows[idx[i]]]]

head(df, n) == take(df, [i \in 1..Min(n, NRows(df)) |-> i])

\* "if nrows": None and 0 are both false.
None == [set |-> FALSE, n |-> 0]

Some(n) == [set |-> TRUE, n |-> n]

Truthy(nrows) == nrows.set /\ nrows.n # 0

(***************************************************************************)
(* data_loader.py: the tail of load_sample_data and save_processed_data.   *)
(***************************************************************************)
\* The trimming forgotten: the frame is returned as read.
NeverTrim(df, sample_size, draw) == df

\* "if len(df) > sample_size: df = df.sample(n=sample_size, ...)": draw is
\* the positions the seeded generator picks, distinct and in its order.
TrimToSample(df, sample_size, draw) ==
    IF NRows(df) > sample_size THEN take(df, draw) ELSE df

\* The sequences of k distinct positions among 1..n.
Draws(n, k) == {s \in SeqsOfLen(1..n, k) : \A i, j \in 1..k : i # j => s[i] # s[j]}

\* A file system is its directories and its files; a file is named by its
\* directory, base name and extension.
Path(dir, filename, ext) == <<dir, filename, ext>>

\* An unknown format written as csv instead of being refused.
SaveAnyFormatAsCsv(fs, filename, output_dir, file_format, engine) ==
    [status |-> "ok", exc |-> "",
     fs |-> [dirs |-> fs.dirs \cup {output_dir},
             files |-> fs.files \cup {Path(output_dir, filename, "csv")}],
     filepath |-> Path(output_dir, filename, "csv")]

\* save_processed_data: mkdir, then the writer of the format.  engine says
\* whether a parquet engine is installed (to_parquet raises ImportError
\* without one).  The result is [status, exc, fs, filepath].
save_processed_data(fs, filename, output_dir, file_format, engine) ==
    LET made == [fs EXCEPT !.dirs = fs.dirs \cup {output_dir}]
    IN  IF file_format = "csv"
        THEN [status |-> "ok", exc |-> "",
              fs |-> [made EXCEPT !.files = made.files \cup {Path(output_dir, filename, "csv")}],
              filepath |-> Path(output_dir, filename, "csv")]
        ELSE IF file_format = "parquet"
        THEN IF engine
             THEN [status |-> "ok", exc |-> "",
                   fs |-> [made EXCEPT !.files =
                              made.files \cup {Path(output_dir, filename, "parquet")}],
                   filepath |-> Path(output_dir, filename, "parquet")]
             ELSE [status |-> "raised", exc |-> "ImportError", fs |-> made,
                   filepath |-> <<>>]
        ELSE [status |-> "raised", exc |-> "ValueError", fs |-> made, filepath |-> <<>>]

(***************************************************************************)
(* utils.py: identify_outliers and calculate_delay_metrics.                *)
(*                                                                         *)
(* A series is a sequence of whole numbers and missing values (NaN); the   *)
(* numbers are plain integers here.  A threshold k is the fraction         *)
(* k.num / k.den.                                                          *)
(***************************************************************************)
dropna(series) == SelectSeq(series, LAMBDA x : x.k # "nan")

Values(series) == [i \in 1..Len(series) |-> series[i].v]

RECURSIVE Insert(_, _)
Insert(x, sorted) ==
    IF sorted = <<>> THEN <<x>>
    ELSE IF x <= Head(sorted) THEN <<x>> \o sorted
    ELSE <<Head(sorted)>> \o Insert(x, Tail(sorted))

RECURSIVE Sort(_)
Sort(s) == IF s = <<>> THEN <<>> ELSE Insert(Head(s), Sort(Tail(s)))

\* A quantile taken at the lower of the two nearest ranks.
Quantile4Lower(xs, q4) == 4 * xs[((q4 * (Len(xs) - 1)) \div 4) + 1]

\* Four times Series.quantile(q4 / 4) of the sorted values xs (not empty),
\* by linear interpolation between the two nearest ranks.
Quantile4(xs, q4) ==
    LET h == q4 * (Len(xs) - 1)
        j == (h \div 4) + 1
        r == h % 4
    IN  IF r = 0 THEN 4 * xs[j] ELSE 4 * xs[j] + r * (xs[j + 1] - xs[j])

\* The iqr branch: series < lower_bound or series > upper_bound, every
\* quantity times 4 * k.den.  A comparison with NaN is false.
IqrMask(series, k) ==
    LET xs == Sort(Values(dropna(series)))
    IN  IF xs = <<>> THEN [i \in 1..Len(series) |-> FALSE]
        ELSE LET Q1  == Quantile4(xs, 1)
                 Q3  == Quantile4(xs, 3)
                 IQR == Q3 - Q1
                 lower_bound == k.den * Q1 - k.num * IQR
                 upper_bound == k.den * Q3 + k.num * IQR
             IN  [i \in 1..Len(series) |->
                     /\ series[i].k = "num"
                     /\ \/ 4 * k.den * series[i].v < lower_bound
                        \/ 4 * k.den * series[i].v > upper_bound]

\* The zscore branch: |x - mean| / std > k with the sample deviation
\* (ddof = 1), compared as squares.  With fewer than two values, or all
\* values equal, std is NaN or 0 and no z-score exceeds anything.
ZscoreMask(series, k) ==
    LET xs == Values(dropna(series))
        n  == Len(xs)
        S  == Sum(xs)
        SS == n * Sum([i \in 1..n |-> xs[i] * xs[i]]) - S * S
    IN  [i \in 1..Len(series) |->
            /\ series[i].k = "num"
            /\ n >= 2
            /\ SS > 0
            /\ (n * series[i].v - S) * (n * series[i].v - S) * k.den * k.den * (n - 1)
                  > k.num * k.num * SS * n]

identify_outliers(series, method, threshold) ==
    IF method = "iqr"
    THEN [status |-> "ok", mask |-> IqrMask(series, threshold)]
    ELSE IF method = "zscore"
    THEN [status |-> "ok", mask |-> ZscoreMask(series, threshold)]
    ELSE [status |-> "raised", exc |-> "ValueError"]

\* round(a / b, 0) to the nearest integer, ties to even, for b > 0.
RoundHalfEven(a, b) ==
    LET q == a \div b
        r == a % b
    IN  IF 2 * r < b THEN q
        ELSE IF 2 * r > b THEN q + 1
        ELSE IF q % 2 = 0 THEN q ELSE q + 1

\* round(100 * a / b, 2) in hundredths; NaN when b = 0 (numpy divides 0 by
\* 0 into nan).
Round2(a, b) == IF b = 0 THEN NaN ELSE Num(RoundHalfEven(100 * a, b))

\* The column without dropna: missing values stay in the denominator.
KeepMissing(series) == series

\* df[delay_col].dropna()
Delays(series) == dropna(series)

\* calculate_delay_metrics on the delay column: every metric rounded to 2
\* decimals and kept in hundredths; std_delay is kept as the fraction its
\* square is (the variance), the root not being taken.
calculate_delay_metrics(series) ==
    LET delays == Values(SelectSeq(Delays(series), LAMBDA x : x.k = "num"))
        n      == Len(Delays(series))
        xs     == Sort(delays)
        m      == Len(xs)
        S      == Sum(xs)
    IN  [total_flights |-> Len(series),
         flights_with_delay_data |-> n,
         mean_delay |-> Round2(S, m),
         median_delay |->
             IF m = 0 THEN NaN
             ELSE IF m % 2 = 1 THEN Round2(xs[(m + 1) \div 2], 1)
             ELSE Round2(xs[m \div 2] + xs[(m \div 2) + 1], 2),
         std_delay |->
             IF m < 2 THEN NaN
             ELSE [k |-> "var",
                   v |-> <<m * Sum([i \in 1..m |-> xs[i] * xs[i]]) - S * S, m * (m - 1)>>],
         min_delay |-> IF m = 0 THEN NaN ELSE Round2(xs[1], 1),
         max_delay |-> IF m = 0 THEN NaN ELSE Round2(xs[m], 1),
         on_time_pct |->
             Round2(100 * Cardinality({i \in 1..Len(delays) : delays[i] <= 15}), n),
         delayed_pct |->
             Round2(100 * Cardinality({i \in 1..Len(delays) : delays[i] > 15}), n),
         significantly_delayed_pct |->
             Round2(100 * Cardinality({i \in 1..Len(delays) : delays[i] > 60}), n)]

(***************************************************************************)
(* utils.py: get_top_n_categories.                                         *)
(*                                                                         *)
(* A categorical series is a sequence of texts and missing values.         *)
(***************************************************************************)
RECURSIVE Perms(_)
Perms(S) ==
    IF S = {} THEN {<<>>}
    ELSE UNION {{<<x>> \o p : p \in Perms(S \ {x})} : x \in S}

Count(series, v) == Cardinality({i \in 1..Len(series) : series[i] = v})

\* Every order of the distinct values of a series, sorted or not.
AnyOrder(series) == Perms(Range(dropna(series)))

\* The index of series.value_counts(): the distinct values that are not
\* missing, most frequent first.  The counts are sorted by sort_values with
\* its default kind 'quicksort', which is not stable, so values with equal
\* counts come in an order the numpy build decides: every order that is
\* descending in the counts is possible.
value_counts(series) ==
    {index \in Perms(Range(dropna(series))) :
        \A i, j \in 1..Len(index) :
            i < j => Count(series, index[i]) >= Count(series, index[j])}

\* get_top_n_categories for n >= 0, given the index value_counts returned.
get_top_n_categories(series, n, include_other, index) ==
    LET top_n == SubSeq(index, 1, Min(n, Len(index)))
    IN  IF include_other
        THEN [i \in 1..Len(series) |->
                 IF series[i] \in Range(top_n) THEN series[i] ELSE Text("Other")]
        ELSE SelectSeq(series, LAMBDA x : x \in Range(top_n))

(***************************************************************************)
(* The tables the calls are tried on: every choice, per column, of absent  *)
(* or one of the dtypes a frame holds before optimization, with n rows of  *)
(* values of that dtype.  400 is beyond int8, 1.2 is off the float32 grid. *)
(***************************************************************************)
Absent == [dtype |-> "absent", base |-> "absent", vals |-> <<>>]

RawColumns(n) ==
    {Column("int64", v)   : v \in SeqsOfLen({Num(10), Num(4000)}, n)} \cup
    {Column("float64", v) : v \in SeqsOfLen({Num(12), NaN}, n)} \cup
    {Column("object", v)  : v \in SeqsOfLen({Str(1), Huge}, n)}

MkTable(univ, choice, n) ==
    LET Present(c) == choice[c] # Absent
    IN  [cols |-> SelectSeq(univ, Present),
         data |-> [c \in {x \in Range(univ) : Present(x)} |-> choice[c]],
         rows |-> [i \in 1..n |-> i]]

OptimizerColumns == <<"AIRLINE", "DAY_OF_WEEK", "MONTH", "DEPARTURE_DELAY", "Age">>

OptimizerInput(a, w, m, d, g, n) ==
    MkTable(OptimizerColumns,
            [c \in Range(OptimizerColumns) |->
                CASE c = "AIRLINE"         -> a
                  [] c = "DAY_OF_WEEK"     -> w
                  [] c = "MONTH"           -> m
                  [] c = "DEPARTURE_DELAY" -> d
                  [] OTHER                 -> g],
            n)

\* The tables create_derived_features is tried on: any of its source
\* columns, with the dtypes preprocessing leaves (datetime64 dates, numeric
\* ages) or the raw text of the file, and possibly a column that already
\* has the name of a derived feature.
DateColumns(n) ==
    {Column("datetime64", v) : v \in SeqsOfLen({Date(1), Date(59), NaN}, n)} \cup
    {Column("object", [i \in 1..n |-> Str(1)])}

AirportColumns(n) == {Column("object", v) : v \in SeqsOfLen({Str(1), NaN}, n)}

Ages == {-10, 0, 5, 180, 185, 350, 500, 650, 1200, 1210}

AgeColumns(n) ==
    {Column("float64", v) : v \in SeqsOfLen({Num(a) : a \in Ages} \cup {NaN}, n)} \cup
    {Column("object", [i \in 1..n |-> Str(1)])}

FeatureColumns ==
    <<"MONTH", "DAY_OF_WEEK", "ROUTE", "AGE_GROUP",
      "DEPARTURE_DATE", "Airport Name", "Arrival Airport", "Age">>

OldColumns ==
    {{}, {"MONTH"}, {"DAY_OF_WEEK"}, {"ROUTE"}, {"AGE_GROUP"},
     {"MONTH", "DAY_OF_WEEK", "ROUTE", "AGE_GROUP"}}

FeatureInput(d, o, a, g, old, n) ==
    MkTable(FeatureColumns,
            [c \in Range(FeatureColumns) |->
                CASE c = "DEPARTURE_DATE"  -> d
                  [] c = "Airport Name"    -> o
                  [] c = "Arrival Airport" -> a
                  [] c = "Age"             -> g
                  [] OTHER                 ->
                       IF c \in old
                       THEN Column("int64", [i \in 1..n |-> Num(10)])
                       ELSE Absent],
            n)

\* The files the loaders are tried on: one column, up to MaxFileRows lines,
\* each a whole number, an empty field, text or a malformed line.
Line(c, x, b) == [id |-> 0, bad |-> b, cells |-> [y \in {c} |-> x]]

LinesOf(c) ==
    {Line(c, x, FALSE) : x \in {Num(10), NaN, Str(1), Str(2)}} \cup {Line(c, Num(10), TRUE)}

Files(names) ==
    UNION {
        {[cols |-> <<c>>,
          lines |-> [i \in 1..Len(ls) |-> [ls[i] EXCEPT !.id = i]]] :
            ls \in SeqsUpTo(LinesOf(c), MaxFileRows)} :
        c \in names}

LoaderFiles == Files({"MONTH", "AIRLINE", "DAY_OF_WEEK"})

SamplerFiles == Files({"MONTH"})

\* The series, thresholds, delay columns and file systems the helpers are
\* tried on.
ExampleSeries == <<Num(1), Num(2), Num(3), Num(4), Num(5), Num(100)>>

\* Every short series over a few values, and the series [1,2,3,4,5,100]
\* with any one element replaced.
OutlierSeries ==
    SeqsUpTo({Num(1), Num(2), Num(100), NaN}, MaxSeries)
        \cup {[ExampleSeries EXCEPT ![i] = x] :
                 i \in 1..Len(ExampleSeries),
                 x \in {Num(-2), Num(-1), Num(1), Num(3), Num(5), Num(8), Num(9), Num(100), NaN}}

Thresholds == {[num |-> 3, den |-> 2], [num |-> 1, den |-> 1]}

Methods == {"iqr", "zscore", "mad"}

DelayColumns == SeqsUpTo({Num(5), Num(10), Num(15), Num(20), Num(60), Num(70), NaN}, MaxDelays)

FileSystems ==
    {[dirs |-> d, files |-> f] :
        d \in SUBSET {"processed"},
        f \in SUBSET {Path("processed", "out", "csv"), Path("processed", "out", "parquet")}}

Formats == {"csv", "parquet", "json"}

\* The categorical series get_top_n_categories is tried on.
CategorySeries == SeqsUpTo({Text("a"), Text("b"), Text("c"), NaN}, MaxCategories)

(***************************************************************************)
(* The state machine.                                                      *)
(***************************************************************************)
Init ==
    /\ op = "none"
    /\ arg = [none |-> TRUE]
    /\ ret = [status |-> "none"]
    /\ chunks = <<>>
    /\ total_rows = 0
    /\ pos = 0
    /\ reads = 0

\* No call is in progress: the functions keep no state between calls, so
\* every call starts from here and Return comes back here.
Idle == op = "none"

LoaderIdle == UNCHANGED <<chunks, total_rows, pos, reads>>

\* What the caller of optimize_dataframe_dtypes gets: the table and the
\* warnings, or the exception.
Outcome(r) ==
    IF r.status = "ok"
    THEN [status |-> "ok", df |-> r.df, warnings |-> r.warnings]
    ELSE [status |-> "raised", exc |-> r.exc]

CallOptimize ==
    /\ Idle
    /\ \E n \in 0..MaxTableRows :
       \E a \in RawColumns(n) \cup {Absent}, w \in RawColumns(n) \cup {Absent},
          m \in RawColumns(n) \cup {Absent}, d \in RawColumns(n) \cup {Absent},
          g \in {Column("int64", [i \in 1..n |-> Num(10)]), Absent} :
        LET df == OptimizerInput(a, w, m, d, g, n)
        IN  /\ op' = "optimize_dataframe_dtypes"
            /\ arg' = [df |-> df]
            /\ ret' = Outcome(optimize_dataframe_dtypes(df))
    /\ LoaderIdle

CallDerive ==
    /\ Idle
    /\ \E n \in 0..MaxTableRows :
       \E d \in DateColumns(n) \cup {Absent}, o \in AirportColumns(n) \cup {Absent},
          a \in {Column("object", [i \in 1..n |-> Str(2)]), Absent},
          g \in AgeColumns(n) \cup {Absent}, old \in OldColumns :
        LET df == FeatureInput(d, o, a, g, old, n)
            r  == create_derived_features(df)
        IN  /\ op' = "create_derived_features"
            /\ arg' = [df |-> df]
            /\ ret' = IF r.status = "ok"
                      THEN [status |-> "ok", df |-> r.df]
                      ELSE [status |-> "raised", exc |-> r.exc]
    /\ LoaderIdle

\* load_data_chunked up to the reading loop: the existence check and the
\* opening of the reader.
CallLoad ==
    /\ Idle
    /\ \E f \in LoaderFiles, exists \in BOOLEAN, chunksize \in 1..MaxChunk,
          nrows \in {None} \cup {Some(n) : n \in 0..MaxFileRows},
          optimize_dtypes \in BOOLEAN :
        /\ op' = "load_data_chunked"
        /\ arg' = [file |-> f, exists |-> exists, chunksize |-> chunksize,
                   nrows |-> nrows, optimize_dtypes |-> optimize_dtypes]
        /\ ret' = IF exists
                  THEN [status |-> "running", broke |-> FALSE]
                  ELSE [status |-> "raised", exc |-> "FileNotFoundError"]
    /\ chunks' = <<>>
    /\ total_rows' = 0
    /\ pos' = 0
    /\ reads' = 0

Loading == op = "load_data_chunked" /\ ret.status = "running"

\* The reader yields another batch: lines are left, or it is the first
\* batch (a file with a header and no lines yields one batch without rows).
HasNext == pos < Len(arg.file.lines) \/ reads = 0

\* One iteration of the loop: read a batch, optimize it, append it, count
\* its rows, break when nrows is reached.  A malformed line in the batch
\* ends the call with the parser's error.
ReadChunk ==
    /\ Loading
    /\ ~ret.broke
    /\ HasNext
    /\ LET last  == Min(pos + arg.chunksize, Len(arg.file.lines))
           lines == SubSeq(arg.file.lines, pos + 1, last)
           chunk == FrameOf(arg.file.cols, lines)
           r     == IF arg.optimize_dtypes
                    THEN optimize_dataframe_dtypes(chunk)
                    ELSE [status |-> "ok", exc |-> "", df |-> chunk, warnings |-> <<>>]
       IN  IF \E i \in 1..Len(lines) : lines[i].bad
           THEN /\ ret' = [status |-> "raised", exc |-> "ParserError"]
                /\ UNCHANGED <<chunks, total_rows, pos, reads>>
           ELSE IF r.status = "raised"
           THEN /\ ret' = [status |-> "raised", exc |-> r.exc]
                /\ pos' = last
                /\ reads' = reads + 1
                /\ UNCHANGED <<chunks, total_rows>>
           ELSE /\ chunks' = Append(chunks, r.df)
                /\ total_rows' = total_rows + NRows(r.df)
                /\ pos' = last
                /\ reads' = reads + 1
                /\ ret' = [ret EXCEPT !.broke =
                              Truthy(arg.nrows) /\ total_rows + NRows(r.df) >= arg.nrows.n]
    /\ UNCHANGED <<op, arg>>

\* After the loop: concatenate, truncate to nrows, return.
FinishLoad ==
    /\ Loading
    /\ ret.broke \/ ~HasNext
    /\ LET df == concat(chunks)
       IN  ret' = [status |-> "ok",
                   df |-> IF Truthy(arg.nrows) THEN head(df, arg.nrows.n) ELSE df]
    /\ UNCHANGED <<op, arg, chunks, total_rows, pos, reads>>

\* load_sample_data.  skipped are the lines the random skip decisions of
\* the second pass drop (none when sample_size / total_rows >= 1, the draw
\* in [0, 1) never exceeding it); malformed lines are skipped by the parser;
\* draw is what df.sample picks when the frame is too long.
CallSample ==
    /\ Idle
    /\ \E f \in SamplerFiles, exists \in BOOLEAN, sample_size \in 1..MaxSample,
          skipped \in SUBSET (1..MaxFileRows) :
        LET total_rows_ == Len(f.lines)
            kept == SelectSeq(f.lines, LAMBDA l : l.id \notin skipped /\ ~l.bad)
            df   == FrameOf(f.cols, kept)
        IN  /\ skipped \subseteq 1..total_rows_
            /\ sample_size >= total_rows_ => skipped = {}
            /\ exists \/ skipped = {}
            /\ \E draw \in IF NRows(df) > sample_size
                           THEN Draws(NRows(df), sample_size) ELSE {<<>>} :
                LET r == optimize_dataframe_dtypes(TrimToSample(df, sample_size, draw))
                IN  /\ op' = "load_sample_data"
                    /\ arg' = [file |-> f, exists |-> exists, sample_size |-> sample_size,
                               skipped |-> skipped, draw |-> draw]
                    /\ ret' = IF ~exists
                              THEN [status |-> "raised", exc |-> "FileNotFoundError"]
                              ELSE IF total_rows_ = 0
                              THEN [status |-> "raised", exc |-> "ZeroDivisionError"]
                              ELSE IF r.status = "raised"
                              THEN [status |-> "raised", exc |-> r.exc]
                              ELSE [status |-> "ok", df |-> r.df,
                                    kept |-> [i \in 1..Len(kept) |-> kept[i].id]]
    /\ LoaderIdle

CallOutliers ==
    /\ Idle
    /\ \E series \in OutlierSeries, method \in Methods, threshold \in Thresholds :
        /\ op' = "identify_outliers"
        /\ arg' = [series |-> series, method |-> method, threshold |-> threshold]
        /\ ret' = identify_outliers(series, method, threshold)
    /\ LoaderIdle

CallSave ==
    /\ Idle
    /\ \E fs \in FileSystems, file_format \in Formats, engine \in BOOLEAN :
        LET r == save_processed_data(fs, "out", "processed", file_format, engine)
        IN  /\ op' = "save_processed_data"
            /\ arg' = [fs |-> fs, filename |-> "out", output_dir |-> "processed",
                       file_format |-> file_format, engine |-> engine]
            /\ ret' = IF r.status = "ok"
                      THEN [status |-> "ok", fs |-> r.fs, filepath |-> r.filepath]
                      ELSE [status |-> "raised", exc |-> r.exc, fs |-> r.fs]
    /\ LoaderIdle

CallDelayMetrics ==
    /\ Idle
    /\ \E series \in DelayColumns :
        /\ op' = "calculate_delay_metrics"
        /\ arg' = [series |-> series]
        /\ ret' = [status |-> "ok", metrics |-> calculate_delay_metrics(series)]
    /\ LoaderIdle

CallTopN ==
    /\ Idle
    /\ \E series \in CategorySeries, n \in 0..MaxCategories, include_other \in BOOLEAN :
       \E index \in value_counts(series) :
        /\ op' = "get_top_n_categories"
        /\ arg' = [series |-> series, n |-> n, include_other |-> include_other]
        /\ ret' = [status |-> "ok",
                   result |-> get_top_n_categories(series, n, include_other, index)]
    /\ LoaderIdle

\* The caller takes the result (or the exception) of the finished call.
Return ==
    /\ ret.status \in {"ok", "raised"}
    /\ op' = "none"
    /\ arg' = [none |-> TRUE]
    /\ ret' = [status |-> "none"]
    /\ chunks' = <<>>
    /\ total_rows' = 0
    /\ pos' = 0
    /\ reads' = 0

Next ==
    \/ CallOptimize
    \/ CallDerive
    \/ CallLoad
    \/ ReadChunk
    \/ FinishLoad
    \/ CallSample
    \/ CallOutliers
    \/ CallSave
    \/ CallDelayMetrics
    \/ CallTopN
    \/ Return

Spec == Init /\ [][Next]_vars

(***************************************************************************)
(* The dtype optimizer.                                                    *)
(***************************************************************************)
Optimized == op = "optimize_dataframe_dtypes" /\ ret.status = "ok"

\* C2: optimize_dataframe_dtypes is idempotent: optimizing the table it
\* returned returns that same table (same columns, dtypes and values).
OptimizeIdempotent ==
    Optimized =>
        LET again == optimize_dataframe_dtypes(ret.df)
        IN  again.status = "ok" /\ again.df = ret.df

\* An optimization that changed a dtype, failed to narrow another column
\* and wrapped a value on the way.
OptimizeIdempotentWitness ==
    /\ Optimized
    /\ ret.warnings # <<>>
    /\ \E c \in Range(arg.df.cols) :
          /\ arg.df.data[c].dtype = "int64"
          /\ ret.df.data[c].dtype = "int8"
          /\ ret.df.data[c].vals # arg.df.data[c].vals

\* C3: the optimizer never fails because a column could not be narrowed:
\* the call returns a table, and every present column with a numeric target
\* either has the target type or is the input column, unchanged, with a
\* warning recorded for it.
NarrowingNeverFails ==
    op = "optimize_dataframe_dtypes" =>
        /\ ret.status = "ok"
        /\ \A c \in NumericColumns \cap Range(arg.df.cols) :
              \/ ret.df.data[c].dtype = TargetOf(c)
              \/ /\ ret.df.data[c].dtype = arg.df.data[c].dtype
                 /\ c \in Range(ret.warnings)

\* C5: after the optimizer returns, every present column listed as
\* categorical has the categorical type.
CategoricalColumnsAreCategory ==
    Optimized =>
        \A c \in CategoricalColumns \cap Range(arg.df.cols) :
            ret.df.data[c].dtype = "category"

(***************************************************************************)
(* The feature deriver.                                                    *)
(***************************************************************************)
Derived == op = "create_derived_features" /\ ret.status = "ok"

\* The label the closed ranges [0,18], (18,35], (35,50], (50,65], (65,120]
\* give an age (in tenths), NaN outside [0,120] and for a missing age.
AgeGroupOf(x) ==
    IF x.k # "num" \/ x.v < 0 \/ x.v > 1200 THEN NaN
    ELSE IF x.v <= 180 THEN Text("0-18")
    ELSE IF x.v <= 350 THEN Text("19-35")
    ELSE IF x.v <= 500 THEN Text("36-50")
    ELSE IF x.v <= 650 THEN Text("51-65")
    ELSE Text("65+")

\* C4: every row whose Age is in [0,120] gets the label of its range, the
\* boundary values 0, 18, 35, 50, 65 and 120 included; every other row
\* (Age outside [0,120] or missing) gets a null AGE_GROUP.
AgeGroupsCoverClosedRange ==
    (Derived /\ HasColumn(arg.df, "Age")) =>
        \A i \in 1..NRows(arg.df) :
            ret.df.data["AGE_GROUP"].vals[i] = AgeGroupOf(arg.df.data["Age"].vals[i])

\* C6: create_derived_features is purely additive: the output keeps the
\* rows, holds every input column under its name with unchanged content,
\* and its columns are the input's columns followed by new ones.
DeriveIsPurelyAdditive ==
    Derived =>
        /\ ret.df.rows = arg.df.rows
        /\ Len(ret.df.cols) >= Len(arg.df.cols)
        /\ SubSeq(ret.df.cols, 1, Len(arg.df.cols)) = arg.df.cols
        /\ \A c \in Range(arg.df.cols) : ret.df.data[c] = arg.df.data[c]

\* The output holds the feature c and it is not a column taken over from
\* the input: the call computed it.
Computed(c) ==
    /\ HasColumn(ret.df, c)
    /\ HasColumn(arg.df, c) => ret.df.data[c] # arg.df.data[c]

\* The input is as preprocessing leaves it ("should be preprocessed"):
\* a date column is datetime-like and an age column numeric.
Preprocessed(df) ==
    /\ HasColumn(df, "DEPARTURE_DATE") => df.data["DEPARTURE_DATE"].dtype = "datetime64"
    /\ HasColumn(df, "Age") => df.data["Age"].dtype = "float64"

\* C7: a derived feature is computed iff its source columns are present,
\* and no absent source column makes the call raise: on every preprocessed
\* input the call completes, whatever subset of the sources it holds, and
\* an exception, if any, comes from a column that is present.
DeriveSkipsAbsentSources ==
    op = "create_derived_features" =>
        /\ Preprocessed(arg.df) => ret.status = "ok"
        /\ ret.status = "raised" =>
              \/ ret.exc = "AttributeError" /\ HasColumn(arg.df, "DEPARTURE_DATE")
              \/ ret.exc = "TypeError" /\ HasColumn(arg.df, "Age")
        /\ ret.status = "ok" =>
              /\ \A c \in {"MONTH", "MONTH_NAME", "DAY_OF_WEEK", "DAY_NAME"} :
                    Computed(c) <=> HasColumn(arg.df, "DEPARTURE_DATE")
              /\ Computed("ROUTE") <=>
                    (HasColumn(arg.df, "Airport Name") /\ HasColumn(arg.df, "Arrival Airport"))
              /\ Computed("AGE_GROUP") <=> HasColumn(arg.df, "Age")

\* A call on a table with rows that holds the origin but not the
\* destination, and the age but not the date: it completes with the age
\* group and without route or calendar features.
DeriveSkipsAbsentSourcesWitness ==
    /\ Derived
    /\ NRows(arg.df) > 0
    /\ HasColumn(arg.df, "Airport Name") /\ ~HasColumn(arg.df, "Arrival Airport")
    /\ HasColumn(arg.df, "Age") /\ ~HasColumn(arg.df, "DEPARTURE_DATE")
    /\ HasColumn(ret.df, "AGE_GROUP")
    /\ ~HasColumn(ret.df, "ROUTE") /\ ~HasColumn(ret.df, "MONTH")

(***************************************************************************)
(* The chunked loader.                                                     *)
(***************************************************************************)
Loaded == op = "load_data_chunked" /\ ret.status = "ok"

\* C1: with max_rows set and max_rows <= R the loader returns exactly the
\* first max_rows rows of the file in their order; with max_rows not set it
\* returns all R rows in their order.
LoadReturnsFirstRows ==
    Loaded =>
        LET R == Len(arg.file.lines)
        IN  /\ (arg.nrows.set /\ arg.nrows.n <= R) =>
                  ret.df.rows = [i \in 1..arg.nrows.n |-> i]
            /\ ~arg.nrows.set => ret.df.rows = [i \in 1..R |-> i]

(***************************************************************************)
(* The sampling loader.                                                    *)
(***************************************************************************)
Sampled == op = "load_sample_data" /\ ret.status = "ok"

\* C8: load_sample_data never returns more than sample_size rows: when the
\* second pass kept more, the result is exactly sample_size rows, each a
\* different one of the kept rows; when it kept sample_size rows or fewer,
\* the result is the kept rows.
SampleNeverExceedsSize ==
    Sampled =>
        LET rows == ret.df.rows
        IN  /\ Len(rows) <= arg.sample_size
            /\ Len(ret.kept) > arg.sample_size =>
                  /\ Len(rows) = arg.sample_size
                  /\ Range(rows) \subseteq Range(ret.kept)
                  /\ Cardinality(Range(rows)) = Len(rows)
            /\ Len(ret.kept) <= arg.sample_size => rows = ret.kept

\* A sample of a file where the random pass skipped a line and still kept
\* more than sample_size: the result was trimmed, and not to the first rows.
SampleNeverExceedsSizeWitness ==
    /\ Sampled
    /\ arg.skipped # {}
    /\ Len(ret.kept) > arg.sample_size
    /\ ret.df.rows # SubSeq(ret.kept, 1, arg.sample_size)

(***************************************************************************)
(* Structural errors.                                                      *)
(***************************************************************************)
\* C9: structural errors abort the operation without a result: a missing
\* path makes load_data_chunked raise FileNotFoundError before any batch is
\* read; an unknown method makes identify_outliers raise and return no
\* mask; an unsupported format makes save_processed_data raise and write no
\* file.
StructuralErrorsAbort ==
    /\ (op = "load_data_chunked" /\ ~arg.exists) =>
          /\ ret = [status |-> "raised", exc |-> "FileNotFoundError"]
          /\ reads = 0 /\ chunks = <<>>
    /\ (op = "identify_outliers" /\ arg.method \notin {"iqr", "zscore"}) =>
          ret = [status |-> "raised", exc |-> "ValueError"]
    /\ (op = "save_processed_data" /\ arg.file_format \notin {"csv", "parquet"}) =>
          /\ ret.status = "raised" /\ ret.exc = "ValueError"
          /\ ret.fs.files = arg.fs.files

\* A save with an unsupported format into a directory that did not exist:
\* the directory has been made, the call raised, no file was written.
StructuralErrorsAbortWitness ==
    /\ op = "save_processed_data"
    /\ arg.file_format = "json"
    /\ arg.fs.dirs = {} /\ ret.fs.dirs = {"processed"}
    /\ ret.status = "raised"
    /\ ret.fs.files = {}

(***************************************************************************)
(* Delay metrics.                                                          *)
(***************************************************************************)
NonMissing(series) == {i \in 1..Len(series) : series[i].k = "num"}

\* x is 100 * a / b rounded to 2 decimals: a number of hundredths within
\* half a hundredth of it.
IsPct(x, a, b) == x.k = "num" /\ Abs(20000 * a - 2 * b * x.v) <= b

\* C10: missing values are excluded from every denominator: with n >= 1
\* non-missing delays, flights_with_delay_data = n and the on-time, delayed
\* and significantly delayed percentages are 100 * (number <= 15, > 15,
\* > 60) / n rounded to 2 decimals; [5, 10, 20, missing, 70] gives 4, 50.0
\* and 25.0.
DelayMetricsExcludeMissing ==
    (op = "calculate_delay_metrics" /\ NonMissing(arg.series) # {}) =>
        LET s == arg.series
            n == Cardinality(NonMissing(s))
            m == ret.metrics
        IN  /\ m.flights_with_delay_data = n
            /\ IsPct(m.on_time_pct, Cardinality({i \in NonMissing(s) : s[i].v <= 15}), n)
            /\ IsPct(m.delayed_pct, Cardinality({i \in NonMissing(s) : s[i].v > 15}), n)
            /\ IsPct(m.significantly_delayed_pct,
                     Cardinality({i \in NonMissing(s) : s[i].v > 60}), n)
            /\ s = <<Num(5), Num(10), Num(20), NaN, Num(70)>> =>
                  /\ m.flights_with_delay_data = 4
                  /\ m.on_time_pct = Num(5000)
                  /\ m.significantly_delayed_pct = Num(2500)

\* The metrics of the column [5, 10, 20, missing, 70].
DelayMetricsExcludeMissingWitness ==
    /\ op = "calculate_delay_metrics"
    /\ arg.series = <<Num(5), Num(10), Num(20), NaN, Num(70)>>
    /\ ret.metrics.total_flights = 5
    /\ ret.metrics.flights_with_delay_data = 4
    /\ ret.metrics.on_time_pct = Num(5000)


TopN == op = "get_top_n_categories" /\ ret.status = "ok"

\* The sets of values that are "the n most frequent" of a series: n of its
\* distinct values (all of them when there are fewer), none of them less
\* frequent than a value left out.
TopSets(series, n) ==
    LET distinct == {v \in Range(series) : v.k # "nan"}
    IN  {K \in SUBSET distinct :
            /\ Cardinality(K) = Min(n, Cardinality(distinct))
            /\ \A v \in K, w \in distinct \ K : Count(series, v) >= Count(series, w)}

\* What the claim says the result is when K are the values kept.
KeepOnly(series, K, include_other) ==
    IF include_other
    THEN [i \in 1..Len(series) |-> IF series[i] \in K THEN series[i] ELSE Text("Other")]
    ELSE SelectSeq(series, LAMBDA x : x \in K)

TopNGeneral ==
    TopN => \E K \in TopSets(arg.series, arg.n) :
                ret.result = KeepOnly(arg.series, K, arg.include_other)

TopNExample ==
    /\ TopN
    /\ arg.series = <<Text("a"), Text("a"), Text("b"), Text("c")>>
    /\ arg.n = 2
    /\ arg.include_other

Flagged == op = "identify_outliers" /\ arg.method = "iqr" /\ ret.status = "ok"

\* The j-th smallest of the values of a series that are not missing, told by
\* counting: fewer than j values are below it and at least j are not above.
Ranked(series, j) ==
    LET at == {i \in 1..Len(series) : series[i].k = "num"}
    IN  CHOOSE v \in {series[i].v : i \in at} :
            /\ Cardinality({i \in at : series[i].v < v}) < j
            /\ Cardinality({i \in at : series[i].v <= v}) >= j

\* Four times the percentile 25 * q4 of a series with n >= 1 values: the
\* value at rank 1 + (q4 / 4) * (n - 1), between two ranks in proportion.
Percentile4(series, q4) ==
    LET n    == Cardinality({i \in 1..Len(series) : series[i].k = "num"})
        h    == q4 * (n - 1)
        lo   == (h \div 4) + 1
        frac == h % 4
    IN  IF frac = 0 THEN 4 * Ranked(series, lo)
        ELSE (4 - frac) * Ranked(series, lo) + frac * Ranked(series, lo + 1)

\* x is strictly below Q1 - k * IQR or strictly above Q3 + k * IQR (every
\* side times 4 * k.den).
BeyondFences(series, k, x) ==
    LET Q1  == Percentile4(series, 1)
        Q3  == Percentile4(series, 3)
        IQR == Q3 - Q1
    IN  \/ 4 * k.den * x < k.den * Q1 - k.num * IQR
        \/ 4 * k.den * x > k.den * Q3 + k.num * IQR

\* C12: with method 'iqr' and threshold k, identify_outliers flags exactly
\* the elements strictly below Q1 - k * IQR or strictly above Q3 + k * IQR
\* (Q1, Q3 the 25th and 75th percentiles of the series, IQR = Q3 - Q1; a
\* missing element is never flagged); on [1,2,3,4,5,100] with k = 1.5 exactly
\* the value 100 is flagged.
IqrFlagsBeyondFences ==
    Flagged =>
        /\ Len(ret.mask) = Len(arg.series)
        /\ \A i \in 1..Len(arg.series) :
               ret.mask[i] <=> /\ arg.series[i].k = "num"
                               /\ BeyondFences(arg.series, arg.threshold, arg.series[i].v)
        /\ (arg.series = ExampleSeries /\ arg.threshold = [num |-> 3, den |-> 2])
               => ret.mask = <<FALSE, FALSE, FALSE, FALSE, FALSE, TRUE>>

IqrFlagsBeyondFencesWitness ==
    /\ Flagged
    /\ arg.series = ExampleSeries
    /\ arg.threshold = [num |-> 3, den |-> 2]
    /\ ret.mask = <<FALSE, FALSE, FALSE, FALSE, FALSE, TRUE>>


\* C13: optimize_dataframe_dtypes never changes the shape of its input:
\* whatever columns are present and whether each cast succeeds or fails, the
\* table it returns has the same rows (same number, same order) and the same
\* columns (same names, same order, one value per row) as the input.
OptimizeKeepsShape ==
    Optimized =>
        /\ ret.df.cols = arg.df.cols
        /\ DOMAIN ret.df.data = DOMAIN arg.df.data
        /\ ret.df.rows = arg.df.rows
        /\ \A c \in Range(ret.df.cols) : Len(ret.df.data[c].vals) = NRows(arg.df)

\* A table with rows, with a column outside the mappings and a mapped column
\* missing, of which one cast succeeded and another failed.
OptimizeKeepsShapeWitness ==
    /\ Optimized
    /\ NRows(arg.df) >= 1
    /\ HasColumn(arg.df, "Age")
    /\ ~HasColumn(arg.df, "AIRLINE")
    /\ ret.warnings # <<>>
    /\ \E c \in Range(arg.df.cols) : ret.df.data[c].dtype # arg.df.data[c].dtype


CeilDiv(a, b) == (a + b - 1) \div b

\* C14: load_data_chunked reads the batches in sequence and, when nrows is
\* set, stops reading as soon as the rows read reach nrows: the batches read
\* are consecutive lines of the file from the first on, the rows accumulated
\* before truncation are fewer than nrows + chunksize, and a completed load
\* of a file of R rows has read ceil(min(nrows, R) / chunksize) batches.
BatchesReadUntilMaxRows ==
    (op = "load_data_chunked" /\ arg.nrows.set /\ ret.status \in {"running", "ok"}) =>
        /\ Flatten([i \in 1..Len(chunks) |-> chunks[i].rows]) = [i \in 1..pos |-> i]
        /\ total_rows = pos
        /\ total_rows < arg.nrows.n + arg.chunksize
        /\ ret.status = "ok" =>
               reads = CeilDiv(Min(arg.nrows.n, Len(arg.file.lines)), arg.chunksize)


\* The table the same call returns with optimize_dtypes = False: the same
\* batches (reads of them, up to line pos), as read, concatenated and
\* truncated.
LoadedUnoptimized ==
    LET raw == [i \in 1..reads |->
                   FrameOf(arg.file.cols,
                           SubSeq(arg.file.lines, (i - 1) * arg.chunksize + 1,
                                  Min(i * arg.chunksize, pos)))]
        df  == concat(raw)
    IN  IF Truthy(arg.nrows) THEN head(df, arg.nrows.n) ELSE df

Dtypes(df) == [c \in Range(df.cols) |-> df.data[c].dtype]

\* C15: the column types load_data_chunked returns with optimize_dtypes =
\* True do not depend on the batches: they are the types
\* optimize_dataframe_dtypes gives when it is applied once to the whole table
\* loaded without optimization.
BatchingDoesNotChangeTypes ==
    (Loaded /\ arg.optimize_dtypes) =>
        LET whole == optimize_dataframe_dtypes(LoadedUnoptimized)
        IN  /\ whole.status = "ok"
            /\ Dtypes(ret.df) = Dtypes(whole.df)

====
